---- MODULE Spec2Model ----
(***************************************************************************)
(* Artifact.save of jenkinsapi/artifact.py as a step machine: one caller   *)
(* saving an artifact to one destination path, against a server that holds *)
(* the remote resource and the fingerprint database.                       *)
(* Spec is that machine. SpecDir enters it through save_to_dir, SpecMd5    *)
(* runs the loop of _md5sum read by read, SpecPar, SpecTwin and SpecRace   *)
(* run two saves at the same time, SpecNode switches a node on and off.    *)
(***************************************************************************)
EXTENDS Naturals, Sequences, FiniteSets

\* ---------------------------------------------------------------- bounds
\* Longest remote resource and local file, in bytes.
MaxLen == 2
\* Number of distinct digests of the scaled-down hash.
HashMod == 2
\* iter_content(chunk_size=1024), scaled down.
chunk_size == 1
\* _md5sum(fspath, chunksize=2**20), scaled down.
chunksize == 2

\* ------------------------------------------------------------ value sets
Byte == {0, 1}
Content == UNION {[1..n -> Byte] : n \in 0..MaxLen}
Digest == 0..(HashMod - 1)

\* What the caller passed as fspath; the only path of the model.
fspath == "fspath"

\* What a Fingerprint object answers: validate_for_build(...) and .unknown.
FpOutcome == [valid : BOOLEAN, unknown : BOOLEAN]
NoFp == [valid |-> FALSE, unknown |-> FALSE]

\* The file at fspath: absent, or present with its bytes.
NoFile == [present |-> FALSE, bytes |-> <<>>]
File(b) == [present |-> TRUE, bytes |-> b]
Disk == {NoFile} \cup {File(b) : b \in Content}

EnvFaults == {"TransportError", "IOError"}

VARIABLES
    disk,               \* the file at fspath
    remote,             \* the bytes the server serves at self.url
    fingerprints,       \* the server's fingerprint answers, by digest
    pc,                 \* where the current save call stands
    phase,              \* "pre": verifying the existing file; "post": after download
    strict_validation,  \* save's argument
    build,              \* whether self.build is truthy
    local_md5,          \* _verify_download's local_md5
    fp,                 \* _verify_download's fp
    data,               \* what is left of the streamed response
    filepath,           \* save's filepath: what _do_download returned
    raises,             \* the exceptions raised inside this call, in order
    result,             \* how the call ended
    retval,             \* what it returned
    n_md5,              \* _md5sum passes started by this call
    n_fetch,            \* Fingerprint fetches started by this call
    n_download,         \* _do_download calls of this call
    n_verify,           \* _verify_download calls of this call
    orig,               \* disk when the call was entered
    prev,               \* summary of the call before this one
    dircall,            \* the save_to_dir call that entered save, if any
    md5run,             \* one run of the loop of _md5sum, step by step
    node,               \* a node of the server and the calls made on it
    procs,              \* two saves running at the same time
    files               \* the files those two saves write

\* The state of save under one caller.
saveVars == <<disk, remote, fingerprints, pc, phase, strict_validation, build,
              local_md5, fp, data, filepath, raises, result, retval,
              n_md5, n_fetch, n_download, n_verify, orig, prev>>

\* The state the other specifications of this module run on.
others == <<dircall, md5run, node, procs, files>>

vars == <<saveVars, others>>

server == <<remote, fingerprints>>
locals == <<local_md5, fp, data, filepath>>
counters == <<n_md5, n_fetch, n_download, n_verify>>
args == <<strict_validation, build, orig, prev>>

\* --------------------------------------------------------------- hashing
Min(a, b) == IF a < b THEN a ELSE b

\* md5.update(chunk): the hash state absorbs the chunk's bytes in order.
RECURSIVE md5_update(_, _)
md5_update(h, chunk) ==
    IF chunk = <<>> THEN h
    ELSE md5_update((2 * h + Head(chunk) + 1) % HashMod, Tail(chunk))

\* Faulty variant: every read starts at the beginning of the file.
f_read_rewind(f, pos, n) == SubSeq(f, 1, Min(n, Len(f) - pos))

\* f.read(n) at offset pos: up to n bytes, empty at end of file.
f_read(f, pos, n) == SubSeq(f, pos + 1, Min(pos + n, Len(f)))

\* The loop of _md5sum: update with every non-empty chunk, break at the
\* first empty one.
RECURSIVE md5_loop(_, _, _, _)
md5_loop(f, pos, n, h) ==
    LET chunk == f_read(f, pos, n)
    IN  IF chunk # <<>>
        THEN md5_loop(f, pos + Len(chunk), n, md5_update(h, chunk))
        ELSE h

\* _md5sum(fspath, chunksize): md5.hexdigest() after the loop.
_md5sum(f, n) == md5_loop(f, 0, n, 0)

\* ---------------------------------------------------------- verification
\* Fingerprint(baseurl, local_md5, jenkins) and what it will answer.
Fingerprint(db, md5) == db[md5]

\* fp.validate_for_build(filename, job full name, buildno).
validate_for_build(f) == f.valid

\* Faulty variants of the test of _verify_download: one that lets an unknown
\* digest pass when validation is not strict, one that fails only when strict.
broken_unknown_passes(f, strict) ==
    (~validate_for_build(f) /\ ~f.unknown) \/ (f.unknown /\ strict)
broken_only_strict(f, strict) == (~validate_for_build(f) \/ f.unknown) /\ strict

\* The test of _verify_download that raises ArtifactBroken.
broken(f, strict) == ~validate_for_build(f) \/ (f.unknown /\ strict)

\* Faulty variant: the try block also holds the verification after download.
in_try_both(at, ph) == at \in {"md5", "fetch", "validate"}

\* The try block of save: the verification of the existing file.
in_try(at, ph) == ph = "pre" /\ at \in {"md5", "fetch", "validate"}

\* Faulty variants of the except clause: a bare except, and one that names
\* another exception.
except_any(e) == TRUE
except_ioerror(e) == e = "IOError"

\* The except clause of save: which exceptions it catches.
except_clause(e) == e = "ArtifactBroken"

\* Faulty variants of the branch: the build test forgotten, the existence
\* test forgotten, the build test inverted.
verify_any_existing(present, b) == present
verify_any_built(present, b) == b
verify_unbuilt(present, b) == present /\ ~b

\* The branch of save that verifies the existing file: os.path.exists(fspath)
\* and self.build.
verify_existing(present, b) == present /\ b

\* Faulty variant: the file opened for appending.
open_ab(d) == [present |-> TRUE, bytes |-> d.bytes]

\* open(fspath, "wb"): the file is created, or truncated to nothing.
open_wb(d) == [present |-> TRUE, bytes |-> <<>>]

\* Faulty variant: every chunk written from the start of the file.
out_write_rewind(d, chunk) == [present |-> TRUE, bytes |-> chunk]

\* out.write(chunk): the chunk goes after what the file holds.
out_write(d, chunk) == [present |-> TRUE, bytes |-> d.bytes \o chunk]

\* Faulty variant: the verification tolerates an artifact without a build.
build_job_any(b) == TRUE

\* self.build.job.jenkins.baseurl can be read: self.build is an object.
build_job(b) == b

\* One exception as raised: what, by which step, in which phase of save.
Raised(e, at, ph) == [e |-> e, at |-> at, phase |-> ph]
Last(q) == q[Len(q)]

\* ------------------------------------------------------------------ Init
\* The other variables while they are not in use.
NoDirCall == [active |-> FALSE]
NoMd5Run == [active |-> FALSE]
NoNode == [active |-> FALSE]
NoProcs == <<>>
NoFiles == <<>>

OthersIdle ==
    /\ dircall = NoDirCall
    /\ md5run = NoMd5Run
    /\ node = NoNode
    /\ procs = NoProcs
    /\ files = NoFiles

NoPrev == [kind |-> "none", strict |-> FALSE, downloads |-> 0]

SaveInit ==
    /\ disk \in Disk
    /\ remote \in Content
    /\ fingerprints \in [Digest -> FpOutcome]
    /\ pc = "idle"
    /\ phase = "pre"
    /\ strict_validation = FALSE
    /\ build = FALSE
    /\ local_md5 = 0
    /\ fp = NoFp
    /\ data = <<>>
    /\ filepath = "none"
    /\ raises = <<>>
    /\ result = "none"
    /\ retval = "none"
    /\ n_md5 = 0
    /\ n_fetch = 0
    /\ n_download = 0
    /\ n_verify = 0
    /\ orig = disk
    /\ prev = NoPrev

Init == SaveInit /\ OthersIdle

\* ------------------------------------------------------- raise and return
\* An exception e raised by the step at pc. Inside the try block of save
\* (the verification of the existing file) the except clause decides;
\* anywhere else it leaves save.
Raise(e) ==
    /\ raises' = Append(raises, Raised(e, pc, phase))
    /\ IF in_try(pc, phase) /\ except_clause(e)
       THEN /\ pc' = "request"
            /\ n_download' = n_download + 1
            /\ UNCHANGED <<result, retval>>
       ELSE /\ pc' = "done"
            /\ result' = e
            /\ UNCHANGED <<retval, n_download>>

\* return fspath.
Return ==
    /\ pc' = "done"
    /\ result' = "returned"
    /\ retval' = fspath
    /\ UNCHANGED <<raises, n_download>>

\* ------------------------------------------------------------------ save
\* What a call that has ended leaves for the next one to know.
Summary ==
    IF result = "returned" /\ ~orig.present
    THEN [kind |-> "fresh", strict |-> strict_validation, downloads |-> n_download]
    ELSE IF result \in EnvFaults /\ Last(raises).at = "write"
    THEN [kind |-> "partial", strict |-> FALSE, downloads |-> n_download]
    ELSE NoPrev

\* save(fspath, strict_validation) on an artifact whose build is b:
\* os.path.exists and self.build pick the branch.
save(s, b) ==
    /\ strict_validation' = s
    /\ build' = b
    /\ IF verify_existing(disk.present, b)
       THEN /\ pc' = "md5"
            /\ n_verify' = 1
            /\ n_download' = 0
       ELSE /\ pc' = "request"
            /\ n_verify' = 0
            /\ n_download' = 1
    /\ phase' = "pre"
    /\ orig' = disk
    /\ UNCHANGED <<disk, server, locals, raises, result, retval, n_md5,
                   n_fetch, prev>>

\* A caller enters save.
SaveEnter ==
    /\ pc = "idle"
    /\ \E s \in BOOLEAN, b \in BOOLEAN : save(s, b)

\* _verify_download: local_md5 = self._md5sum(fspath).
Md5sum ==
    /\ pc = "md5"
    /\ n_md5' = n_md5 + 1
    /\ \/ /\ disk.present
          /\ local_md5' = _md5sum(disk.bytes, chunksize)
          /\ pc' = "fetch"
          /\ UNCHANGED <<raises, result, retval, n_download>>
       \/ /\ Raise("IOError")
          /\ UNCHANGED local_md5
    /\ UNCHANGED <<disk, server, phase, fp, data, filepath, n_fetch, n_verify, args>>

\* _verify_download: self.build.job.jenkins.baseurl, Fingerprint(...) and
\* fp.validate_for_build(...).
FingerprintFetch ==
    /\ pc = "fetch"
    /\ IF ~build_job(build)
       THEN /\ Raise("AttributeError")
            /\ UNCHANGED <<fp, n_fetch>>
       ELSE /\ n_fetch' = n_fetch + 1
            /\ \/ /\ fp' = Fingerprint(fingerprints, local_md5)
                  /\ pc' = "validate"
                  /\ UNCHANGED <<raises, result, retval, n_download>>
               \/ /\ Raise("TransportError")
                  /\ UNCHANGED fp
    /\ UNCHANGED <<disk, server, phase, local_md5, data, filepath, n_md5, n_verify,
                   args>>

\* _verify_download: raise ArtifactBroken or return True; save returns fspath
\* when it returned True.
Validate ==
    /\ pc = "validate"
    /\ IF broken(fp, strict_validation)
       THEN Raise("ArtifactBroken")
       ELSE Return
    /\ UNCHANGED <<disk, server, phase, locals, n_md5, n_fetch, n_verify, args>>

\* Faulty variant: the file is opened before the request is made.
Request_after_open ==
    /\ pc = "request"
    /\ disk' = open_wb(disk)
    /\ \/ /\ data' = remote
          /\ pc' = "open"
          /\ UNCHANGED <<raises, result, retval, n_download>>
       \/ /\ Raise("TransportError")
          /\ UNCHANGED data
    /\ UNCHANGED <<server, phase, local_md5, fp, filepath, n_md5, n_fetch,
                   n_verify, args>>

\* _do_download: requester.get_and_confirm_status(self.url, stream=True).
Request ==
    /\ pc = "request"
    /\ \/ /\ data' = remote
          /\ pc' = "open"
          /\ UNCHANGED <<raises, result, retval, n_download>>
       \/ /\ Raise("TransportError")
          /\ UNCHANGED data
    /\ UNCHANGED <<disk, server, phase, local_md5, fp, filepath, n_md5, n_fetch,
                   n_verify, args>>

\* _do_download: open(fspath, "wb") creates or truncates the file.
Open ==
    /\ pc = "open"
    /\ \/ /\ disk' = open_wb(disk)
          /\ pc' = "write"
          /\ UNCHANGED <<raises, result, retval, n_download>>
       \/ /\ Raise("IOError")
          /\ UNCHANGED disk
    /\ UNCHANGED <<server, phase, locals, n_md5, n_fetch, n_verify, args>>

\* _do_download: one turn of the loop over data.iter_content(chunk_size).
WriteChunk ==
    /\ pc = "write"
    /\ data # <<>>
    /\ \/ /\ LET n == Min(chunk_size, Len(data))
             IN  /\ disk' = out_write(disk, SubSeq(data, 1, n))
                 /\ data' = SubSeq(data, n + 1, Len(data))
          /\ UNCHANGED <<pc, raises, result, retval, n_download>>
       \/ /\ \E e \in EnvFaults : Raise(e)
          /\ UNCHANGED <<disk, data>>
    /\ UNCHANGED <<server, phase, local_md5, fp, filepath, n_md5, n_fetch, n_verify,
                   args>>

\* _do_download: the stream is exhausted, the file is closed, fspath is
\* returned and save calls _verify_download on it.
DownloadDone ==
    /\ pc = "write"
    /\ data = <<>>
    /\ pc' = "md5"
    /\ phase' = "post"
    /\ filepath' = fspath
    /\ n_verify' = n_verify + 1
    /\ UNCHANGED <<disk, server, local_md5, fp, data, raises, result, retval,
                   n_md5, n_fetch, n_download, args>>

\* The caller has the value or the exception: the call's frame is gone.
SaveExit ==
    /\ pc = "done"
    /\ prev' = Summary
    /\ pc' = "idle"
    /\ phase' = "pre"
    /\ strict_validation' = FALSE
    /\ build' = FALSE
    /\ local_md5' = 0
    /\ fp' = NoFp
    /\ data' = <<>>
    /\ filepath' = "none"
    /\ raises' = <<>>
    /\ result' = "none"
    /\ retval' = "none"
    /\ n_md5' = 0
    /\ n_fetch' = 0
    /\ n_download' = 0
    /\ n_verify' = 0
    /\ orig' = disk
    /\ UNCHANGED <<disk, server>>

\* ----------------------------------------------------------- environment
\* Between two calls the server may serve other bytes or answer otherwise
\* for one digest; a save that follows is no longer a repetition on an
\* unchanged server.
RemoteChange ==
    /\ pc = "idle"
    /\ \/ \E c \in Content \ {remote} :
            /\ remote' = c
            /\ UNCHANGED fingerprints
       \/ \E d \in Digest :
            \E o \in FpOutcome \ {fingerprints[d]} :
                /\ fingerprints' = [fingerprints EXCEPT ![d] = o]
                /\ UNCHANGED remote
    /\ prev' = (IF prev.kind = "fresh" THEN NoPrev ELSE prev)
    /\ UNCHANGED <<disk, pc, phase, strict_validation, build, locals, raises,
                   result, retval, counters, orig>>

Next ==
    \/ SaveEnter /\ UNCHANGED others
    \/ Md5sum /\ UNCHANGED others
    \/ FingerprintFetch /\ UNCHANGED others
    \/ Validate /\ UNCHANGED others
    \/ Request /\ UNCHANGED others
    \/ Open /\ UNCHANGED others
    \/ WriteChunk /\ UNCHANGED others
    \/ DownloadDone /\ UNCHANGED others
    \/ SaveExit /\ UNCHANGED others
    \/ RemoteChange /\ UNCHANGED others

Spec == Init /\ [][Next]_vars

\* The steps of one save call, apart from its entry.
CallStep ==
    \/ Md5sum
    \/ FingerprintFetch
    \/ Validate
    \/ Request
    \/ Open
    \/ WriteChunk
    \/ DownloadDone

\* ------------------------------------------------------------ properties
\* The verification of the existing file raised ArtifactBroken.
ExistingFailed ==
    /\ Len(raises) >= 1
    /\ raises[1].e = "ArtifactBroken"
    /\ raises[1].phase = "pre"

\* The exception was raised by _do_download.
InDownload(r) == r.at \in {"request", "open", "write"}

\* The server's fingerprint for content c passes _verify_download.
Validates(c, strict) ==
    LET f == fingerprints[_md5sum(c, chunksize)]
    IN  f.valid /\ ~(f.unknown /\ strict)

\* C1: for an artifact with a build, whenever save has returned normally it
\* returned fspath, the file at fspath exists and the fingerprint of its
\* checksum validates for the artifact's build; the last verification of the
\* call was of this file and did not fail.
C1_ReturnedFileValidates ==
    (pc = "done" /\ result = "returned" /\ build) =>
        /\ retval = fspath
        /\ disk.present
        /\ fingerprints[_md5sum(disk.bytes, chunksize)].valid
        /\ local_md5 = _md5sum(disk.bytes, chunksize)
        /\ fp = fingerprints[local_md5]
        /\ fp.valid /\ ~(fp.unknown /\ strict_validation)

\* C1 happens: save returned after replacing an existing file that failed.
C1_Witness ==
    /\ pc = "done" /\ result = "returned" /\ build
    /\ orig.present /\ n_download = 1

\* C2: an ArtifactBroken raised by the verification after the download is the
\* last exception of the call, ends the call as its result, and no second
\* download follows it.
C2_FreshFailurePropagates ==
    \A i \in 1..Len(raises) :
        (raises[i].e = "ArtifactBroken" /\ raises[i].phase = "post") =>
            /\ i = Len(raises)
            /\ pc = "done"
            /\ result = "ArtifactBroken"
            /\ n_download = 1

\* C2 happens: strict validation, the existing file failed, the re-downloaded
\* file's fingerprint is still unknown, and the failure reached the caller.
C2_Witness ==
    /\ pc = "done" /\ result = "ArtifactBroken"
    /\ Len(raises) = 2 /\ raises[2].phase = "post"
    /\ strict_validation /\ fp.unknown

\* C3: when the verification of an existing file of an artifact with a build
\* raised ArtifactBroken, save goes on: it downloads exactly once, verifies
\* the downloaded file next, and when no further exception is raised it
\* returns fspath with the downloaded bytes on disk.
C3_ExistingFailureRecovered ==
    ExistingFailed =>
        /\ orig.present /\ build
        /\ n_download = 1
        /\ n_verify = (IF phase = "post" THEN 2 ELSE 1)
        /\ (pc = "md5" => phase = "post" /\ disk = File(remote))
        /\ (pc = "done" /\ Len(raises) = 1 =>
                /\ result = "returned"
                /\ retval = fspath
                /\ n_verify = 2
                /\ disk = File(remote))

\* C3 happens: lenient validation, the existing file failed, the downloaded
\* one passed, save returned.
C3_Witness ==
    /\ ExistingFailed /\ pc = "done" /\ Len(raises) = 1
    /\ ~strict_validation /\ result = "returned" /\ disk # orig

\* C4: the call before this one started with no file, returned normally, and
\* nothing changed on the server since; this call has the same arguments.
\* Then the first call downloaded once, this call downloads nothing, leaves
\* the file as it found it, verifies once, raises no ArtifactBroken, and
\* returns fspath unless a transport or filesystem error interrupts it.
C4_SecondSaveIdempotent ==
    (prev.kind = "fresh" /\ pc # "idle" /\ build
        /\ strict_validation = prev.strict) =>
        /\ prev.downloads = 1
        /\ n_download = 0
        /\ disk = orig
        /\ n_verify = 1
        /\ \A i \in 1..Len(raises) : raises[i].e \in EnvFaults
        /\ (pc = "done" /\ raises = <<>> =>
                result = "returned" /\ retval = fspath)

\* C4 happens: the second call has returned.
C4_Witness ==
    /\ prev.kind = "fresh" /\ build /\ strict_validation = prev.strict
    /\ pc = "done" /\ result = "returned" /\ n_md5 = 1

\* C5 as stated: a save that found no file always ends with exactly one
\* download and exactly one verification after it.
C5_Original ==
    (pc = "done" /\ ~orig.present) => n_download = 1 /\ n_verify = 1

\* C5 amended: a save that found no file starts exactly one download and no
\* verification before it; the verification after the download runs once when
\* the download completes and not at all when the download raises.
C5_OneDownloadThenVerify ==
    (pc # "idle" /\ ~orig.present) =>
        /\ n_download = 1
        /\ (phase = "pre" => n_verify = 0 /\ n_md5 = 0 /\ n_fetch = 0)
        /\ (phase = "post" => n_verify = 1 /\ disk = File(remote))
        /\ (pc = "done" =>
                n_verify = (IF Len(raises) = 1 /\ InDownload(raises[1])
                            THEN 0 ELSE 1))

\* C5 happens: no file, one download, one verification, save returned.
C5_Witness ==
    /\ pc = "done" /\ ~orig.present /\ result = "returned"
    /\ n_download = 1 /\ n_verify = 1

\* C6: the last step of _verify_download raises ArtifactBroken exactly when
\* validate_for_build answered false, or the fingerprint is unknown and
\* strict_validation is true; otherwise it returns True and save returns.
C6_VerifyStep ==
    pc = "validate" =>
        LET raised == /\ Len(raises') = Len(raises) + 1
                      /\ raises'[Len(raises')].e = "ArtifactBroken"
        IN  /\ raised <=> (~fp.valid \/ (fp.unknown /\ strict_validation))
            /\ ~raised => /\ raises' = raises
                          /\ pc' = "done"
                          /\ result' = "returned"

C6_VerifyRaisesExactly == [][C6_VerifyStep]_vars

\* C6 happens: validation answered true, the fingerprint is unknown, and
\* strict validation made it a failure.
C6_Witness ==
    /\ pc = "done" /\ result = "ArtifactBroken"
    /\ fp.valid /\ fp.unknown /\ strict_validation

\* C7: every exception raised inside save, other than an ArtifactBroken from
\* the verification of the existing file, is the last one of the call and is
\* the call's result; once the call has ended none of its steps can run.
C7_OnlyExistingFailureDiscarded ==
    /\ \A i \in 1..Len(raises) :
        \/ raises[i].e = "ArtifactBroken" /\ raises[i].phase = "pre"
        \/ i = Len(raises) /\ pc = "done" /\ result = raises[i].e
    /\ (pc = "done" => ~ENABLED CallStep)

\* C7 happens: the fingerprint lookup for the existing file failed in
\* transport and the failure reached the caller.
C7_Witness ==
    /\ pc = "done" /\ result = "TransportError"
    /\ raises = <<Raised("TransportError", "fetch", "pre")>>

\* C8 as stated: at most one checksum pass, one fingerprint fetch and one
\* download in a save.
C8_Original == n_md5 <= 1 /\ n_fetch <= 1 /\ n_download <= 1

\* C8 amended: at most one download; one checksum pass and one fingerprint
\* fetch at most per verification, and at most two verifications; the second
\* one only when the existing file failed verification.
C8_AtMostOnePerVerification ==
    /\ n_download <= 1
    /\ n_verify <= 2
    /\ n_fetch <= n_md5
    /\ n_md5 <= n_verify
    /\ (n_verify = 2 => ExistingFailed)

\* C8 happens: two checksum passes and two fetches around one download.
C8_Witness == n_md5 = 2 /\ n_fetch = 2 /\ n_download = 1

C10_PartialFileReplaced ==
    (prev.kind = "partial" /\ pc # "idle" /\ build) =>
        /\ orig.present
        /\ n_verify >= 1
        /\ (n_download >= 1 => ExistingFailed)
        /\ (ExistingFailed => n_download = 1)
        /\ (/\ pc = "done"
            /\ ExistingFailed
            /\ \A i \in 2..Len(raises) : raises[i].e \notin EnvFaults
            /\ Validates(remote, strict_validation)
            => /\ result = "returned"
               /\ retval = fspath
               /\ disk = File(remote))

\* C10 happens: a partial file was found, failed verification and was
\* replaced by the complete download.
C10_Witness ==
    /\ prev.kind = "partial" /\ build /\ ExistingFailed
    /\ pc = "done" /\ result = "returned"
    /\ Len(orig.bytes) < Len(disk.bytes) /\ Len(disk.bytes) >= 2

\* C12: once _do_download has completed, the file holds exactly the bytes of
\* the remote resource, whatever it held before, and save's filepath is the
\* path that was given.
C12_DownloadWritesRemote ==
    phase = "post" => disk = File(remote) /\ filepath = fspath

\* C12 happens: a longer file was there before the download.
C12_Witness ==
    /\ phase = "post" /\ orig.present
    /\ remote # <<>> /\ Len(orig.bytes) > Len(remote)

C18_FailedRequestKeepsFile ==
    pc # "idle" =>
        /\ (phase = "pre" /\ pc \in {"md5", "fetch", "validate", "request", "open"}
                => disk = orig)
        /\ (pc = "done" /\ Len(raises) >= 1 /\ Last(raises).at = "request"
                => disk = orig /\ result = "TransportError")

\* C18 happens: the request failed and an existing file kept its bytes.
C18_Witness ==
    /\ pc = "done" /\ Len(raises) >= 1 /\ Last(raises).at = "request"
    /\ orig.present /\ orig.bytes # <<>> /\ disk = orig

\* ------------------------------------------------- _md5sum, step by step
\* Longest file the loop of _md5sum is run on, largest chunksize it is
\* given, and how many times it is run on one file.
MaxFile == 3
MaxChunk == 3
Md5Runs == 2

Md5Content == UNION {[1..n -> Byte] : n \in 0..MaxFile}
ChunkSizes == 1..MaxChunk

\* What f.read returns from a file opened "rb", and the sentinel "" that
\* iter() compares it with: a bytes value and a str value.
bytes_chunk(b) == [type |-> "bytes", v |-> b]
sentinel == [type |-> "str", v |-> <<>>]

\* Faulty variant: the test of the chunk forgotten.
chunk_any(chunk) == TRUE

\* if chunk: a bytes value is true when it is not empty.
chunk_true(chunk) == chunk.v # <<>>

Ceil(a, b) == (a + b - 1) \div b

\* The save variables while no save is running.
SaveParked ==
    /\ SaveInit
    /\ disk = NoFile
    /\ remote = <<>>
    /\ fingerprints = [d \in Digest |-> NoFp]

Md5Idle(c) ==
    [active |-> TRUE, given |-> c, file |-> c, n |-> 0, pos |-> 0, md5 |-> 0,
     fed |-> <<>>, reads |-> 0, empties |-> 0, st |-> "idle",
     digest |-> "none", before |-> "none", n_before |-> 0, runs |-> 0]

InitMd5 ==
    /\ SaveParked
    /\ md5run \in {Md5Idle(c) : c \in Md5Content}
    /\ dircall = NoDirCall
    /\ node = NoNode
    /\ procs = NoProcs
    /\ files = NoFiles

md5rest == <<saveVars, dircall, node, procs, files>>

\* _md5sum(fspath, chunksize) is called: md5 = hashlib.md5() and the file is
\* opened "rb".
Md5Enter ==
    /\ md5run.st \in {"idle", "done"}
    /\ md5run.runs < Md5Runs
    /\ \E n \in ChunkSizes :
        md5run' = [md5run EXCEPT !.n = n, !.pos = 0, !.md5 = 0, !.fed = <<>>,
                                 !.reads = 0, !.empties = 0, !.st = "loop",
                                 !.before = md5run.digest,
                                 !.n_before = md5run.n,
                                 !.digest = "none",
                                 !.runs = @ + 1]
    /\ UNCHANGED md5rest

\* One turn of "for chunk in iter(lambda: f.read(chunksize), '')": the read,
\* the comparison with the sentinel, then the body of the loop.
Md5Read ==
    /\ md5run.st = "loop"
    /\ LET chunk == bytes_chunk(f_read(md5run.file, md5run.pos, md5run.n))
           read == [md5run EXCEPT
                       !.pos = @ + Len(chunk.v),
                       !.reads = IF chunk.v # <<>> THEN @ + 1 ELSE @,
                       !.empties = IF chunk.v = <<>> THEN @ + 1 ELSE @]
       IN  IF chunk = sentinel
           THEN md5run' = [read EXCEPT !.st = "close"]
           ELSE IF chunk_true(chunk)
           THEN md5run' = [read EXCEPT !.md5 = md5_update(@, chunk.v),
                                       !.fed = @ \o chunk.v]
           ELSE md5run' = [read EXCEPT !.st = "close"]
    /\ UNCHANGED md5rest

\* The with block closes the file and md5.hexdigest() is returned.
Md5Return ==
    /\ md5run.st = "close"
    /\ md5run' = [md5run EXCEPT !.st = "done", !.digest = md5run.md5]
    /\ UNCHANGED md5rest

NextMd5 ==
    \/ Md5Enter
    \/ Md5Read
    \/ Md5Return

SpecMd5 == InitMd5 /\ [][NextMd5]_vars

\* The loop is sequential code: a step that can be taken is taken.
FairSpecMd5 == SpecMd5 /\ WF_vars(Md5Read) /\ WF_vars(Md5Return)

\* C14: _md5sum feeds the hash every byte of the file once and in file
\* order, so its digest is the digest of the whole content in one piece,
\* whatever the chunk size; a second run gives the same digest; the file is
\* not modified.
C14_DigestOfWholeContent ==
    md5run.active =>
        /\ md5run.file = md5run.given
        /\ (md5run.st # "idle" =>
                md5run.fed = SubSeq(md5run.file, 1, md5run.pos))
        /\ (md5run.st = "done" =>
                /\ md5run.fed = md5run.file
                /\ md5run.digest = md5_update(0, md5run.file)
                /\ md5run.digest = _md5sum(md5run.file, md5run.n)
                /\ (md5run.runs >= 2 => md5run.digest = md5run.before)
                /\ \A n1 \in ChunkSizes, n2 \in ChunkSizes :
                      _md5sum(md5run.file, n1) = _md5sum(md5run.file, n2))

\* C14 happens: a second run with another chunk size, over a file that takes
\* more than one read, has returned.
C14_Witness ==
    /\ md5run.active /\ md5run.st = "done" /\ md5run.runs = 2
    /\ md5run.n # md5run.n_before
    /\ md5run.reads >= 2
    /\ md5run.digest = md5run.before

\* What C20 says of the reads: the value read is never the sentinel, the
\* loop is left at the first empty read, after ceil(size/chunksize)
\* non-empty ones.
C20_Reads ==
    md5run.active =>
        /\ \A c \in Md5Content : bytes_chunk(c) # sentinel
        /\ md5run.empties <= 1
        /\ (md5run.st = "loop" =>
                /\ md5run.empties = 0
                /\ md5run.reads = Ceil(md5run.pos, md5run.n))
        /\ (md5run.st \in {"close", "done"} =>
                /\ md5run.empties = 1
                /\ md5run.reads = Ceil(Len(md5run.file), md5run.n))

\* C20: the loop of _md5sum terminates for every file and every chunk size,
\* the empty file included: the test of the chunk leaves it at the first
\* empty read, after exactly ceil(size/chunksize) non-empty reads.
C20_LoopTerminates ==
    /\ []C20_Reads
    /\ (md5run.active /\ md5run.st = "loop") ~> (md5run.active /\ md5run.st = "done")

\* C20 happens: a file whose size is no multiple of the chunk size was
\* hashed in more than one read.
C20_Witness ==
    /\ md5run.active /\ md5run.st = "done"
    /\ Len(md5run.file) % md5run.n # 0
    /\ md5run.reads >= 2 /\ md5run.empties = 1

\* --------------------------------------------- a node, online and offline
\* Longest sequence of set_online and set_offline calls on the node.
MaxCalls == 6

\* Faulty variant: the switch is thrown whatever the node's state.
node_already_never(offline, want_offline) == FALSE

\* The node is already in the state the call asks for: the call is a no-op.
node_already(offline, want_offline) == offline = want_offline

\* mn.is_online().
is_online(nd) == ~nd.offline

\* One call on the node: it throws the switch unless the node is already in
\* the state asked for.
node_set(nd, call, want_offline) ==
    LET flip == ~node_already(nd.offline, want_offline)
    IN  [nd EXCEPT !.offline = IF flip THEN ~@ ELSE @,
                   !.was_offline = nd.offline,
                   !.flipped = flip,
                   !.log = Append(@, call)]

InitNode ==
    /\ SaveParked
    /\ node \in {[active |-> TRUE, offline |-> o, was_offline |-> o,
                  flipped |-> FALSE, log |-> <<>>] : o \in BOOLEAN}
    /\ dircall = NoDirCall
    /\ md5run = NoMd5Run
    /\ procs = NoProcs
    /\ files = NoFiles

noderest == <<saveVars, dircall, md5run, procs, files>>

\* mn.set_online().
set_online ==
    /\ Len(node.log) < MaxCalls
    /\ node' = node_set(node, "set_online", FALSE)
    /\ UNCHANGED noderest

\* mn.set_offline().
set_offline ==
    /\ Len(node.log) < MaxCalls
    /\ node' = node_set(node, "set_offline", TRUE)
    /\ UNCHANGED noderest

NextNode ==
    \/ set_online
    \/ set_offline

SpecNode == InitNode /\ [][NextNode]_vars

\* C15: after any sequence of set_online and set_offline calls is_online()
\* is true exactly when the last call was set_online, and a call that asks
\* for the state the node is in does not flip it.
C15_LastCallDecides ==
    (node.active /\ node.log # <<>>) =>
        /\ is_online(node) <=> (Last(node.log) = "set_online")
        /\ (Last(node.log) = "set_online" /\ ~node.was_offline
                => ~node.flipped /\ is_online(node))
        /\ (Last(node.log) = "set_offline" /\ node.was_offline
                => ~node.flipped /\ ~is_online(node))

\* C15 happens: the sequence of the test: set_online on an online node,
\* set_offline twice, the second one a no-op.
C15_Witness ==
    /\ node.active
    /\ node.log = <<"set_online", "set_offline", "set_offline">>
    /\ ~node.flipped /\ ~is_online(node)

\* ------------------------------------------------------------ save_to_dir
\* What can be at dirpath: a directory, nothing, or a regular file.
DirStates == {"dir", "missing", "file"}

\* os.path.exists(dirpath) and os.path.isdir(dirpath).
os_path_exists(dir) == dir # "missing"
os_path_isdir(dir) == dir = "dir"

\* os.path.join(dirpath, self.filename).
os_path_join(dirpath, filename) == <<dirpath, filename>>

\* Faulty variant: save called with its default strict_validation.
save_strict_default(s) == FALSE

\* The strict_validation save_to_dir hands to save: its own.
save_strict(s) == s

\* The file of the model is the one at os.path.join(dirpath, filename);
\* there is none unless dirpath is a directory.
InitDir ==
    /\ SaveInit
    /\ dircall \in {[active |-> TRUE, dir |-> d, called |-> FALSE,
                     strict |-> FALSE, build |-> FALSE,
                     outputfilepath |-> "none"] : d \in DirStates}
    /\ (dircall.dir # "dir" => disk = NoFile)
    /\ md5run = NoMd5Run
    /\ node = NoNode
    /\ procs = NoProcs
    /\ files = NoFiles

dirrest == <<md5run, node, procs, files>>

\* save_to_dir(dirpath, strict_validation): the two asserts, then
\* self.save(outputfilepath, strict_validation).
save_to_dir ==
    /\ pc = "idle"
    /\ ~dircall.called
    /\ \E s \in BOOLEAN, b \in BOOLEAN :
        /\ dircall' = [dircall EXCEPT
                          !.called = TRUE, !.strict = s, !.build = b,
                          !.outputfilepath =
                              IF os_path_exists(dircall.dir) /\ os_path_isdir(dircall.dir)
                              THEN os_path_join("dirpath", "filename")
                              ELSE "none"]
        /\ IF os_path_exists(dircall.dir) /\ os_path_isdir(dircall.dir)
           THEN save(save_strict(s), b)
           ELSE /\ pc' = "done"
                /\ result' = "AssertionError"
                /\ raises' = <<Raised("AssertionError", "assert", "pre")>>
                /\ UNCHANGED <<disk, server, phase, strict_validation, build,
                               locals, retval, counters, orig, prev>>
    /\ UNCHANGED dirrest

NextDir ==
    \/ save_to_dir
    \/ Md5sum /\ UNCHANGED others
    \/ FingerprintFetch /\ UNCHANGED others
    \/ Validate /\ UNCHANGED others
    \/ Request /\ UNCHANGED others
    \/ Open /\ UNCHANGED others
    \/ WriteChunk /\ UNCHANGED others
    \/ DownloadDone /\ UNCHANGED others

SpecDir == InitDir /\ [][NextDir]_vars

\* C13: save_to_dir on a dirpath that is missing or no directory fails
\* before any checksum, fingerprint fetch, download or write; on a directory
\* it is save on os.path.join(dirpath, filename) with the caller's
\* strict_validation: same steps, same verdict, same returned path.
C13_SaveToDirDelegates ==
    (dircall.active /\ dircall.called) =>
        IF dircall.dir # "dir"
        THEN /\ pc = "done" /\ result = "AssertionError" /\ retval = "none"
             /\ n_md5 = 0 /\ n_fetch = 0 /\ n_download = 0 /\ n_verify = 0
             /\ disk = orig /\ disk = NoFile
        ELSE /\ strict_validation = dircall.strict
             /\ build = dircall.build
             /\ dircall.outputfilepath = os_path_join("dirpath", "filename")
             /\ n_verify + n_download >= 1
             /\ (phase = "pre" /\ pc \in {"md5", "fetch", "validate"}
                    => verify_existing(orig.present, dircall.build))
             /\ (pc = "done" /\ result = "returned"
                    => ~broken(fp, dircall.strict) /\ retval = fspath)
             /\ (pc = "done" /\ result = "ArtifactBroken"
                    => broken(fp, dircall.strict) /\ phase = "post")
             /\ (pc = "done" => result # "AssertionError")

\* C13 happens: the caller's strict_validation decided the verdict of the
\* save that save_to_dir delegated to.
C13_Witness ==
    /\ dircall.active /\ dircall.called /\ dircall.dir = "dir"
    /\ dircall.strict
    /\ pc = "done" /\ result = "ArtifactBroken"
    /\ fp.unknown /\ validate_for_build(fp)

\* ------------------------------------------------ saves at the same time
\* Longest remote resource and file of the saves that run at the same time.
ParLen == 1

ParContent == UNION {[1..n -> Byte] : n \in 0..ParLen}
ParDisk == {NoFile} \cup {File(b) : b \in ParContent}
Procs == {1, 2}

\* Faulty variant: every write goes to the end of the file.
pwrite_append(d, off, chunk) == [present |-> TRUE, bytes |-> d.bytes \o chunk]

\* out.write(chunk) on a handle whose offset is off: the chunk lands at the
\* offset, after zeros if the file has become shorter than that.
pwrite(d, off, chunk) ==
    LET padded == IF Len(d.bytes) < off
                  THEN d.bytes \o [k \in 1..(off - Len(d.bytes)) |-> 0]
                  ELSE d.bytes
    IN  [present |-> TRUE,
         bytes |-> SubSeq(padded, 1, off) \o chunk
                   \o SubSeq(padded, off + Len(chunk) + 1, Len(padded))]

\* One Artifact and the save called on it: the arguments, the locals of
\* save and its callees, how the call ended, and the steps it took.
NewProc(path, rem, s, b) ==
    [path |-> path, remote |-> rem, strict |-> s, build |-> b,
     pc |-> "idle", phase |-> "pre", local_md5 |-> 0, hashed |-> <<>>,
     fp |-> NoFp, data |-> <<>>, off |-> 0, raises |-> <<>>,
     result |-> "none", retval |-> "none", trace |-> <<>>, calls |-> 0,
     saves |-> 1, overlap |-> FALSE, partial_return |-> FALSE,
     spurious |-> FALSE, alone |-> <<>>]

\* A process and the file at its path after a step.
After(q, d) == [p |-> q, d |-> d]

\* raise e at the step the process is at (see Raise).
p_raise(q, e) ==
    LET r == Append(q.raises, Raised(e, q.pc, q.phase))
    IN  IF in_try(q.pc, q.phase) /\ except_clause(e)
        THEN [q EXCEPT !.raises = r, !.pc = "request"]
        ELSE [q EXCEPT !.raises = r, !.pc = "done", !.result = e]

\* save(fspath, strict_validation) is entered (see save).
p_enter(q, d) ==
    After([q EXCEPT !.pc = IF verify_existing(d.present, q.build)
                           THEN "md5" ELSE "request",
                    !.phase = "pre", !.local_md5 = 0, !.hashed = <<>>,
                    !.fp = NoFp, !.data = <<>>, !.off = 0, !.raises = <<>>,
                    !.result = "none", !.retval = "none", !.trace = <<>>,
                    !.calls = @ + 1], d)

\* local_md5 = self._md5sum(fspath) (see Md5sum).
p_md5(q, d) ==
    LET t == [q EXCEPT !.trace = Append(@, "md5")]
    IN  IF d.present
        THEN After([t EXCEPT !.local_md5 = _md5sum(d.bytes, chunksize),
                             !.hashed = d.bytes, !.pc = "fetch"], d)
        ELSE After(p_raise(t, "IOError"), d)

\* baseurl and Fingerprint(...) (see FingerprintFetch).
p_fetch(q, d, db) ==
    IF ~build_job(q.build)
    THEN After(p_raise(q, "AttributeError"), d)
    ELSE After([q EXCEPT !.trace = Append(@, "fetch"),
                         !.fp = Fingerprint(db, q.local_md5),
                         !.pc = "validate"], d)

\* The test of _verify_download, then return fspath (see Validate).
p_validate(q, d) ==
    IF broken(q.fp, q.strict)
    THEN After(p_raise(q, "ArtifactBroken"), d)
    ELSE After([q EXCEPT !.pc = "done", !.result = "returned",
                         !.retval = fspath], d)

\* get_and_confirm_status(self.url, stream=True) (see Request).
p_request(q, d) ==
    After([q EXCEPT !.trace = Append(@, "request"), !.data = q.remote,
                    !.pc = "open"], d)

\* open(fspath, "wb") (see Open).
p_open(q, d) ==
    After([q EXCEPT !.trace = Append(@, "open"), !.off = 0, !.pc = "write"],
          open_wb(d))

\* One turn of the loop over iter_content, or its end (see WriteChunk and
\* DownloadDone).
p_write(q, d) ==
    IF q.data # <<>>
    THEN LET n == Min(chunk_size, Len(q.data))
         IN  After([q EXCEPT !.trace = Append(@, "write"),
                             !.data = SubSeq(@, n + 1, Len(@)),
                             !.off = @ + n],
                   pwrite(d, q.off, SubSeq(q.data, 1, n)))
    ELSE After([q EXCEPT !.pc = "md5", !.phase = "post"], d)

\* The step a process takes from where it is.
p_step(q, d, db) ==
    CASE q.pc = "idle" -> p_enter(q, d)
      [] q.pc = "md5" -> p_md5(q, d)
      [] q.pc = "fetch" -> p_fetch(q, d, db)
      [] q.pc = "validate" -> p_validate(q, d)
      [] q.pc = "request" -> p_request(q, d)
      [] q.pc = "open" -> p_open(q, d)
      [] q.pc = "write" -> p_write(q, d)
      [] OTHER -> After(q, d)

\* How a save ended: result, returned value, steps taken and the file.
Outcome(q, d) == <<q.result, q.retval, q.trace, d>>

\* The save of q run alone from file d, to its end.
RECURSIVE RunAlone(_, _, _)
RunAlone(q, d, db) ==
    IF q.pc = "done"
    THEN Outcome(q, d)
    ELSE LET r == p_step(q, d, db) IN RunAlone(r.p, r.d, db)

\* Faulty variant: the saves share one path where the bytes go.
proc_file_shared(ps, i) == ps[1].path

\* The file a save works on: the one at its own fspath.
proc_file(ps, i) == ps[i].path

\* The save variables while the saves of procs run; the fingerprint
\* database is the server's.
ParParked ==
    /\ SaveInit
    /\ disk = NoFile
    /\ remote = <<>>

parrest == <<saveVars, dircall, md5run, node>>

\* The remote resource of q passes the test of _verify_download.
RemoteValidates(q, db) ==
    ~broken(Fingerprint(db, _md5sum(q.remote, chunksize)), q.strict)

\* The file d is short of the resource of q while another save is writing it.
Partial(ps, i, d) ==
    /\ d # File(ps[i].remote)
    /\ Len(d.bytes) <= Len(ps[i].remote)
    /\ \E j \in Procs \ {i} : ps[j].pc = "write" /\ ps[j].path = ps[i].path

\* Process i takes the step it is at, on the file at its path. What is
\* noted of the step: that it wrote while another save was running, that it
\* returned while the file was partial, that it raised ArtifactBroken after
\* its download although the remote resource validates.
ProcStep(i) ==
    LET path == proc_file(procs, i)
        r == p_step(procs[i], files[path], fingerprints)
        busy == \E j \in Procs \ {i} : procs[j].pc \notin {"idle", "done"}
    IN  /\ procs' = [procs EXCEPT ![i] =
                [r.p EXCEPT
                    !.overlap = @ \/ (busy /\ procs[i].pc = "write"),
                    !.partial_return = @ \/ (/\ r.p.result = "returned"
                                             /\ Partial(procs, i, files[path])),
                    !.spurious = @ \/ (/\ r.p.result = "ArtifactBroken"
                                       /\ r.p.phase = "post"
                                       /\ RemoteValidates(procs[i], fingerprints))]]
        /\ files' = [files EXCEPT ![path] = r.d]
        /\ UNCHANGED parrest

PEnter(i) == procs[i].pc = "idle" /\ procs[i].calls < procs[i].saves /\ ProcStep(i)
PMd5(i) == procs[i].pc = "md5" /\ ProcStep(i)
PFetch(i) == procs[i].pc = "fetch" /\ ProcStep(i)
PValidate(i) == procs[i].pc = "validate" /\ ProcStep(i)
PRequest(i) == procs[i].pc = "request" /\ ProcStep(i)
POpen(i) == procs[i].pc = "open" /\ ProcStep(i)
PWrite(i) == procs[i].pc = "write" /\ ProcStep(i)

NextPar ==
    \E i \in Procs :
        \/ PEnter(i)
        \/ PMd5(i)
        \/ PFetch(i)
        \/ PValidate(i)
        \/ PRequest(i)
        \/ POpen(i)
        \/ PWrite(i)

\* What the fingerprint database answers in the runs of two saves.
ParFp == {[valid |-> TRUE, unknown |-> FALSE],
          [valid |-> FALSE, unknown |-> FALSE]}

\* Two artifacts saved to two paths, the second one to a path where no
\* file is yet; what each save does alone is noted in its alone field.
InitPar ==
    /\ ParParked
    /\ fingerprints \in [Digest -> ParFp]
    /\ files \in [Procs -> ParDisk]
    /\ files[2] = NoFile
    /\ \E r1 \in ParContent, r2 \in ParContent, b1 \in BOOLEAN :
         LET p1 == NewProc(1, r1, FALSE, b1)
             p2 == NewProc(2, r2, FALSE, TRUE)
         IN  procs = [i \in Procs |->
                        IF i = 1
                        THEN [p1 EXCEPT !.alone = RunAlone(p1, files[1], fingerprints)]
                        ELSE [p2 EXCEPT !.alone = RunAlone(p2, files[2], fingerprints)]]
    /\ dircall = NoDirCall
    /\ md5run = NoMd5Run
    /\ node = NoNode

SpecPar == InitPar /\ [][NextPar]_vars

\* C11: two saves of different artifacts, their steps interleaved in any
\* order: each ends with the result, the returned path, the steps and the
\* file content it has when run alone.
C11_ParallelAsAlone ==
    \A i \in DOMAIN procs :
        procs[i].pc = "done" =>
            Outcome(procs[i], files[procs[i].path]) = procs[i].alone

\* C11 happens: both saves wrote their files while the other was running,
\* and both have ended.
C11_Witness ==
    /\ procs # NoProcs
    /\ \A i \in Procs : procs[i].pc = "done" /\ procs[i].overlap
    /\ procs[1].result = "returned"
    /\ files[1] # files[2]

\* ------------------------------- the same save, strict and not strict
\* The fingerprint never validates a digest it does not know.
FpConsistent(db) ==
    \A d \in Digest : db[d].unknown => ~validate_for_build(db[d])

\* The same artifact saved twice from the same file, each save in a world of
\* its own, once with strict_validation and once without.
InitTwin ==
    /\ ParParked
    /\ fingerprints \in [Digest -> FpOutcome]
    /\ \E d \in ParDisk : files = [i \in Procs |-> d]
    /\ \E r \in ParContent, b \in BOOLEAN :
         procs = [i \in Procs |-> NewProc(i, r, i = 1, b)]
    /\ dircall = NoDirCall
    /\ md5run = NoMd5Run
    /\ node = NoNode

SpecTwin == InitTwin /\ [][NextPar]_vars

\* C16: when the fingerprint never validates a digest it does not know,
\* save with strict_validation and save without take the same steps, leave
\* the same file and end the same way.
C16_StrictHasNoEffect ==
    (procs # NoProcs /\ FpConsistent(fingerprints)) =>
        ((\A i \in Procs : procs[i].pc = "done") =>
            /\ Outcome(procs[1], files[1]) = Outcome(procs[2], files[2])
            /\ procs[1].raises = procs[2].raises)

\* C16 happens: the digest of the download was unknown, and both the strict
\* and the other save raised ArtifactBroken.
C16_Witness ==
    /\ procs # NoProcs /\ FpConsistent(fingerprints)
    /\ procs[1].strict /\ ~procs[2].strict
    /\ \A i \in Procs :
        /\ procs[i].pc = "done" /\ procs[i].result = "ArtifactBroken"
        /\ procs[i].fp.unknown /\ procs[i].phase = "post"

\* --------------------------------------- two saves on the same path
\* Longest remote resource of the saves that share a path, and how many
\* times the first of the two callers calls save; the second calls it once.
RaceLen == 2
MaxSaves == 2

RaceContent == UNION {[1..n -> Byte] : n \in 0..RaceLen}

\* One artifact, saved by two callers to one path where no file is yet.
InitRace ==
    /\ ParParked
    /\ fingerprints \in [Digest -> ParFp]
    /\ files = [i \in Procs |-> NoFile]
    /\ \E r \in RaceContent :
         procs = [i \in Procs |->
                    [NewProc(1, r, FALSE, TRUE) EXCEPT
                        !.saves = IF i = 1 THEN MaxSaves ELSE 1]]
    /\ dircall = NoDirCall
    /\ md5run = NoMd5Run
    /\ node = NoNode

\* The caller has the value or the exception and calls save again.
PAgain(i) ==
    /\ procs[i].pc = "done"
    /\ procs[i].calls < procs[i].saves
    /\ procs' = [procs EXCEPT ![i].pc = "idle"]
    /\ UNCHANGED <<files, parrest>>

NextRace ==
    \E i \in Procs :
        \/ PEnter(i)
        \/ PMd5(i)
        \/ PFetch(i)
        \/ PValidate(i)
        \/ PRequest(i)
        \/ POpen(i)
        \/ PWrite(i)
        \/ PAgain(i)

SpecRace == InitRace /\ [][NextRace]_vars

\* The bytes b are the resource rem cut short, with zeros where a write has
\* not yet landed.
CutShort(b, rem) ==
    /\ Len(b) <= Len(rem)
    /\ \A k \in 1..Len(b) : b[k] \in {rem[k], 0}

\* C19: two saves on one path are not kept apart. What they do to each
\* other: the file is at any time the resource cut short or with holes,
\* never other bytes; a save's verdict is on the bytes it hashed, whatever
\* the file holds when it returns; and a save that raises ArtifactBroken
\* after its download although the resource validates has hashed such a
\* partial file.
C19_SamePathUnprotected ==
    procs # NoProcs =>
        /\ CutShort(files[1].bytes, procs[1].remote)
        /\ \A i \in Procs :
            /\ (procs[i].pc = "done" /\ procs[i].result = "returned"
                    => ~broken(Fingerprint(fingerprints,
                                           _md5sum(procs[i].hashed, chunksize)),
                               procs[i].strict))
            /\ ((/\ procs[i].pc = "done" /\ procs[i].result = "ArtifactBroken"
                 /\ RemoteValidates(procs[i], fingerprints))
                    => /\ procs[i].hashed # procs[i].remote
                       /\ CutShort(procs[i].hashed, procs[i].remote))

\* C19 happens: one save has returned while the other had the file cut
\* short, and one has raised ArtifactBroken for its own download of a
\* resource that validates.
C19_Witness ==
    /\ procs # NoProcs
    /\ \E i \in Procs : procs[i].partial_return
    /\ \E i \in Procs : procs[i].spurious

====
